---- MODULE Spec2Model ----
(***************************************************************************)
(* A model of jackett-sync: src/main.ts (start, sync) and                  *)
(* src/services/service.ts (class Service).                                *)
(*                                                                         *)
(* Arrays are sequences.  A JackettIndexer is [id, categories, link]; its  *)
(* categories are only ever read with includes/some, so they are a set.    *)
(* An Indexer (a consumer's record) is [id, appId, categories, link] with  *)
(* categories a sequence (it is spliced in place).  `link` stands for the  *)
(* fields Indexer.compare looks at.                                        *)
(***************************************************************************)
EXTENDS Integers, Sequences, FiniteSets, TLC

VARIABLES
  rules,            \* Config.indexSpecificRules
  mainPc,           \* start(): "start", "running", "done", "exit"
  jackettIndexers,  \* start(): the source catalog
  categories,       \* per service: this.categories
  indexers,         \* per service: this.indexers
  pc,               \* per service: where main.ts sync(service) stands
  calls,            \* per service: the HTTP requests issued, with their outcome
  stage,            \* position of the function-level specifications
  input,            \* their arguments
  output            \* their results

runVars == <<mainPc, jackettIndexers, categories, indexers, pc, calls>>
funVars == <<stage, input, output>>
vars == <<rules, mainPc, jackettIndexers, categories, indexers, pc, calls,
          stage, input, output>>

(***************************************************************************)
(* Value universes                                                         *)
(***************************************************************************)
Null == 0                         \* null / undefined category of a rule
Cats == {2000, 5030}              \* category numbers
AnimeCats == {5070}               \* anime category numbers
Ids == {1, 2}                     \* indexer ids
ALL == "ALL"                      \* Services.ALL
ServiceNames == {"Sonarr", "Radarr"}
Links == {"a", "b"}               \* values of the fields compare() reads

MaxRules == 2                     \* length of Config.indexSpecificRules
MaxLen == 2                       \* length of a category collection

\* the run does not start in the function-level specifications
NoRun ==
  /\ mainPc = "none"
  /\ jackettIndexers = <<>>
  /\ categories = <<>>
  /\ indexers = <<>>
  /\ pc = <<>>
  /\ calls = <<>>

SeqsUpTo(S, n) == UNION {[1..k -> S] : k \in 0..n}

IndexSpecificRules ==
  [service : {ALL} \cup ServiceNames, indexerId : Ids,
   category : {Null} \cup Cats, animeCategory : {Null} \cup AnimeCats]

RuleTables == SeqsUpTo(IndexSpecificRules, MaxRules)

(***************************************************************************)
(* Array helpers (Array.prototype.includes / indexOf / splice(i, 1))       *)
(***************************************************************************)
Includes(s, x) == \E i \in 1..Len(s) : s[i] = x

IndexOf(s, x) == CHOOSE i \in 1..Len(s) : s[i] = x /\ \A j \in 1..(i - 1) : s[j] # x

Splice(s, i) == SubSeq(s, 1, i - 1) \o SubSeq(s, i + 1, Len(s))

Range(s) == {s[i] : i \in 1..Len(s)}

(***************************************************************************)
(* service.ts 167-176, 178-197, 199-218: the override rules                *)
(***************************************************************************)
\* (the selector test dropped)
ruleSelects_AnyService(serviceName, indexer, rule) == indexer.id = rule.indexerId

ruleSelects(serviceName, indexer, rule) ==
  /\ (rule.service = ALL \/ rule.service = serviceName)
  /\ indexer.id = rule.indexerId

doesIndexerSpecificRuleApply(serviceName, indexer) ==
  \E i \in 1..Len(rules) : ruleSelects(serviceName, indexer, rules[i])

\* (the "not already present" guards dropped)
applyRule_NoGuard(serviceName, indexer, col, rule) ==
  IF ruleSelects(serviceName, indexer, rule)
  THEN [supportedCategories |->
          IF rule.category # Null
          THEN Append(col.supportedCategories, rule.category)
          ELSE col.supportedCategories,
        animeSupportedCategories |->
          IF rule.animeCategory # Null
          THEN Append(col.animeSupportedCategories, rule.animeCategory)
          ELSE col.animeSupportedCategories]
  ELSE col

\* one iteration of the forEach of indexerSpecificConfiguration
applyRule(serviceName, indexer, col, rule) ==
  IF ruleSelects(serviceName, indexer, rule)
  THEN [supportedCategories |->
          IF rule.category # Null /\ ~Includes(col.supportedCategories, rule.category)
          THEN Append(col.supportedCategories, rule.category)
          ELSE col.supportedCategories,
        animeSupportedCategories |->
          IF rule.animeCategory # Null
             /\ ~Includes(col.animeSupportedCategories, rule.animeCategory)
          THEN Append(col.animeSupportedCategories, rule.animeCategory)
          ELSE col.animeSupportedCategories]
  ELSE col

\* one iteration of the forEach of undoIndexerSpecificConfiguration
undoRule(serviceName, indexer, col, rule) ==
  IF ruleSelects(serviceName, indexer, rule)
  THEN [supportedCategories |->
          IF rule.category # Null /\ Includes(col.supportedCategories, rule.category)
          THEN Splice(col.supportedCategories,
                      IndexOf(col.supportedCategories, rule.category))
          ELSE col.supportedCategories,
        animeSupportedCategories |->
          IF rule.animeCategory # Null
             /\ Includes(col.animeSupportedCategories, rule.animeCategory)
          THEN Splice(col.animeSupportedCategories,
                      IndexOf(col.animeSupportedCategories, rule.animeCategory))
          ELSE col.animeSupportedCategories]
  ELSE col

\* (only the first selecting rule is applied)
RECURSIVE forEachApply_FirstOnly(_, _, _, _)
forEachApply_FirstOnly(serviceName, indexer, col, table) ==
  IF table = <<>> THEN col
  ELSE IF ruleSelects(serviceName, indexer, Head(table))
       THEN applyRule(serviceName, indexer, col, Head(table))
       ELSE forEachApply_FirstOnly(serviceName, indexer, col, Tail(table))

RECURSIVE forEachApply(_, _, _, _)
forEachApply(serviceName, indexer, col, table) ==
  IF table = <<>> THEN col
  ELSE forEachApply(serviceName, indexer,
                    applyRule(serviceName, indexer, col, Head(table)), Tail(table))

RECURSIVE forEachUndo(_, _, _, _)
forEachUndo(serviceName, indexer, col, table) ==
  IF table = <<>> THEN col
  ELSE forEachUndo(serviceName, indexer,
                   undoRule(serviceName, indexer, col, Head(table)), Tail(table))

\* The two arrays are mutated in place; the result is their final contents.
indexerSpecificConfiguration(serviceName, indexer, supportedCategories, animeSupportedCategories) ==
  forEachApply(serviceName, indexer,
               [supportedCategories |-> supportedCategories,
                animeSupportedCategories |-> animeSupportedCategories], rules)

undoIndexerSpecificConfiguration(serviceName, indexer, supportedCategories, animeSupportedCategories) ==
  forEachUndo(serviceName, indexer,
              [supportedCategories |-> supportedCategories,
               animeSupportedCategories |-> animeSupportedCategories], rules)

(***************************************************************************)
(* SpecRules: indexerSpecificConfiguration and its undo as functions of    *)
(* their arguments.  The service is Sonarr; the indexer has id 1.          *)
(***************************************************************************)
RulesInputs ==
  [indexer : [id : {1}], supportedCategories : SeqsUpTo(Cats, MaxLen),
   animeSupportedCategories : SeqsUpTo(AnimeCats, MaxLen)]

InitRules ==
  /\ rules \in RuleTables
  /\ input \in RulesInputs
  /\ stage = "input"
  /\ output = <<>>
  /\ NoRun

\* apply on the given collections
Apply ==
  /\ stage = "input"
  /\ output' = indexerSpecificConfiguration("Sonarr", input.indexer,
                  input.supportedCategories, input.animeSupportedCategories)
  /\ stage' = "applied"
  /\ UNCHANGED <<rules, input, runVars>>

\* undo on the collections apply produced
Undo ==
  /\ stage = "applied"
  /\ output' = undoIndexerSpecificConfiguration("Sonarr", input.indexer,
                  output.supportedCategories, output.animeSupportedCategories)
  /\ stage' = "undone"
  /\ UNCHANGED <<rules, input, runVars>>

\* apply once more on the collections apply produced
ApplyAgain ==
  /\ stage = "applied"
  /\ output' = [once |-> output,
                twice |-> indexerSpecificConfiguration("Sonarr", input.indexer,
                            output.supportedCategories, output.animeSupportedCategories)]
  /\ stage' = "appliedAgain"
  /\ UNCHANGED <<rules, input, runVars>>

NextRules == Apply \/ Undo \/ ApplyAgain

SpecRules == InitRules /\ [][NextRules]_vars

\* C3: apply followed by undo, same indexer and rule table, gives back both
\* starting collections.
C3_ApplyUndoInverse ==
  stage = "undone" =>
    /\ output.supportedCategories = input.supportedCategories
    /\ output.animeSupportedCategories = input.animeSupportedCategories

\* rules of the table with selector ALL or Sonarr and the indexer's id
Selecting ==
  {i \in 1..Len(rules) :
     rules[i].service \in {ALL, "Sonarr"} /\ rules[i].indexerId = input.indexer.id}

Count(s, x) == Cardinality({i \in 1..Len(s) : s[i] = x})

\* C11: applying the overrides a second time changes neither collection, and
\* after one application a category occurs at most as often as in the starting
\* collection plus the selecting rules that name it.
C11_ApplyIdempotent ==
  /\ stage = "appliedAgain" => output.twice = output.once
  /\ stage = "applied" =>
       /\ \A c \in Cats :
            Count(output.supportedCategories, c)
              <= Count(input.supportedCategories, c)
                   + Cardinality({i \in Selecting : rules[i].category = c})
       /\ \A c \in AnimeCats :
            Count(output.animeSupportedCategories, c)
              <= Count(input.animeSupportedCategories, c)
                   + Cardinality({i \in Selecting : rules[i].animeCategory = c})

C11_Witness ==
  /\ stage = "appliedAgain"
  /\ output.once.supportedCategories # input.supportedCategories
  /\ output.once.animeSupportedCategories # input.animeSupportedCategories

\* C12: after one application each collection is the starting collection,
\* unchanged at its front, plus exactly the categories (anime categories) that
\* the selecting rules name; other rules and absent categories add nothing.
C12_CumulativeRules ==
  stage = "applied" =>
    /\ SubSeq(output.supportedCategories, 1, Len(input.supportedCategories))
         = input.supportedCategories
    /\ Range(output.supportedCategories)
         = Range(input.supportedCategories)
             \cup ({rules[i].category : i \in Selecting} \ {Null})
    /\ SubSeq(output.animeSupportedCategories, 1, Len(input.animeSupportedCategories))
         = input.animeSupportedCategories
    /\ Range(output.animeSupportedCategories)
         = Range(input.animeSupportedCategories)
             \cup ({rules[i].animeCategory : i \in Selecting} \ {Null})

\* two selecting rules, each adding its own category
C12_Witness ==
  /\ stage = "applied"
  /\ Len(rules) = 2
  /\ Selecting = {1, 2}
  /\ Len(output.supportedCategories) = Len(input.supportedCategories) + 2

(***************************************************************************)
(* helper.ts, models/indexer.ts and the per-application subclasses are not *)
(* part of the two source files; these four follow the specification.      *)
(***************************************************************************)
\* helper.notEmpty: neither null nor undefined
notEmpty(v) == v # Null

\* helper.arrayEquals: same elements, whatever the insertion order
arrayEquals(a, b) == Range(a) = Range(b)

\* Indexer.compare: the identity fields agree
compare(current, indexer) == current.link = indexer.link

\* generateDefaultBody: the natural overlap, then the overrides
generateDefaultBody(this, indexer) ==
  LET col == indexerSpecificConfiguration(this.serviceName, indexer,
               SelectSeq(this.categories, LAMBDA id : id \in indexer.categories),
               <<>>)
  IN [id |-> Null, name |-> indexer.id, link |-> indexer.link,
      categories |-> col.supportedCategories,
      animeCategories |-> col.animeSupportedCategories]

(***************************************************************************)
(* service.ts 151-165: shouldAdd, shouldUpdate, containsAllWantedCategories*)
(* `this` is [serviceName, categories, indexers].                          *)
(***************************************************************************)
\* (&& in place of ||)
shouldAdd_And(this, indexer) ==
  /\ \E category \in indexer.categories : Includes(this.categories, category)
  /\ doesIndexerSpecificRuleApply(this.serviceName, indexer)

shouldAdd(this, indexer) ==
  \/ \E category \in indexer.categories : Includes(this.categories, category)
  \/ doesIndexerSpecificRuleApply(this.serviceName, indexer)

\* (compared with every wanted category instead of the available ones)
containsAllWantedCategories_Unfiltered(this, current, indexer) ==
  LET undone == undoIndexerSpecificConfiguration(this.serviceName, indexer,
                                                 current.categories, <<>>)
  IN [result |-> arrayEquals(undone.supportedCategories, this.categories),
      categories |-> undone.supportedCategories]

\* The result, and current.categories as the in-place undo leaves it.
containsAllWantedCategories(this, current, indexer) ==
  LET availableCategories ==
        SelectSeq(this.categories, LAMBDA id : id \in indexer.categories)
      undone == undoIndexerSpecificConfiguration(this.serviceName, indexer,
                                                 current.categories, <<>>)
  IN [result |-> arrayEquals(undone.supportedCategories, availableCategories),
      categories |-> undone.supportedCategories]

\* (&& in place of ||)
shouldUpdate_And(this, current, indexer) ==
  IF compare(current, indexer)
  THEN [result |-> FALSE, categories |-> current.categories]
  ELSE LET c == containsAllWantedCategories(this, current, indexer)
       IN [result |-> ~c.result, categories |-> c.categories]

\* || does not evaluate its right operand when compare() is false.
shouldUpdate(this, current, indexer) ==
  IF ~compare(current, indexer)
  THEN [result |-> TRUE, categories |-> current.categories]
  ELSE LET c == containsAllWantedCategories(this, current, indexer)
       IN [result |-> ~c.result, categories |-> c.categories]

(***************************************************************************)
(* service.ts 118-149: checkDifferences                                    *)
(***************************************************************************)
\* Array.prototype.find: the index of the first element with this id
FindById(s, id) == CHOOSE i \in 1..Len(s) : s[i].id = id /\ \A j \in 1..(i - 1) : s[j].id # id

IdsOf(s) == [i \in 1..Len(s) |-> s[i].id]

\* same.map(...) of lines 133-141, left to right; each shouldUpdate may splice
\* the categories of the existing record it is given.
RECURSIVE updateLoop(_, _, _, _, _)
updateLoop(this, catalog, same, existing, acc) ==
  IF same = <<>> THEN [update |-> acc, indexers |-> existing]
  ELSE LET jacketIndexer == catalog[FindById(catalog, Head(same))]
           k == FindById(existing, Head(same))
           r == shouldUpdate(this, existing[k], jacketIndexer)
       IN updateLoop(this, catalog, Tail(same),
                     [existing EXCEPT ![k].categories = r.categories],
                     IF r.result THEN Append(acc, jacketIndexer) ELSE acc)

checkDifferences(this, catalog) ==
  LET idList == IdsOf(catalog)
      serviceIdList == SelectSeq(IdsOf(this.indexers), notEmpty)
      diff == SelectSeq(idList, LAMBDA id : ~Includes(serviceIdList, id))
      found == [i \in 1..Len(diff) |-> catalog[FindById(catalog, diff[i])]]
      same == SelectSeq(idList, LAMBDA id : Includes(serviceIdList, id))
      upd == updateLoop(this, catalog, same, this.indexers, <<>>)
  IN [add |-> SelectSeq(found, LAMBDA indexer : shouldAdd(this, indexer)),
      update |-> upd.update,
      indexers |-> upd.indexers,
      notInJackett |-> SelectSeq(serviceIdList, LAMBDA id : ~Includes(idList, id))]

(***************************************************************************)
(* SpecDiff: checkDifferences as a function of the service's wanted        *)
(* categories, the source catalog and the consumer's indexer list, and the *)
(* diff of the run after the consumer stored what this run pushed.         *)
(* The service is Sonarr.                                                  *)
(***************************************************************************)
DiffMaxRules == 1                 \* length of the rule table
DiffMaxLen == 2                   \* length of a stored category collection

\* rules without an anime category: the diff passes [] for that collection
DiffRuleTables ==
  SeqsUpTo([service : {ALL} \cup ServiceNames, indexerId : Ids,
            category : {Null} \cup Cats, animeCategory : {Null}], DiffMaxRules)

WantedCategories == {<<>>, <<2000>>, <<2000, 5030>>, <<5030, 2000>>}

\* source catalogs: an indexer with id 1, alone or beside indexer 2
Jackett2 == [id |-> 2, categories |-> {2000}, link |-> "a"]
Catalogs ==
  LET J1 == [id : {1}, categories : SUBSET Cats, link : {"a"}]
  IN {<<>>, <<Jackett2>>} \cup {<<j>> : j \in J1}
       \cup {<<j, Jackett2>> : j \in J1} \cup {<<Jackett2, j>> : j \in J1}

\* consumer lists: a record with id 1, alone or beside a record with id 2;
\* the consumer numbers its records (appId)
Record2(appId) == [id |-> 2, appId |-> appId, categories |-> <<2000>>, link |-> "a"]
IndexerLists ==
  LET R1(appId) == [id : {1}, appId : {appId},
                    categories : SeqsUpTo(Cats, DiffMaxLen), link : Links]
  IN {<<>>, <<Record2(101)>>} \cup {<<c>> : c \in R1(101)}
       \cup {<<c, Record2(102)>> : c \in R1(101)}

InitDiff ==
  /\ rules \in DiffRuleTables
  /\ input \in [categories : WantedCategories, jackettIndexers : Catalogs,
                indexers : IndexerLists]
  /\ stage = "input"
  /\ output = <<>>
  /\ NoRun

Sonarr(wanted, existing) ==
  [serviceName |-> "Sonarr", categories |-> wanted, indexers |-> existing]

\* this run's diff
Diff ==
  /\ stage = "input"
  /\ output' = checkDifferences(Sonarr(input.categories, input.indexers),
                                input.jackettIndexers)
  /\ stage' = "diffed"
  /\ UNCHANGED <<rules, input, runVars>>

\* What the consumer holds once every create and update of the diff succeeded
\* and it stored exactly the pushed body: an updated record takes the body's
\* categories and identity fields, a created one is appended.
RECURSIVE storeUpdates(_, _, _)
storeUpdates(this, update, stored) ==
  IF update = <<>> THEN stored
  ELSE LET body == generateDefaultBody(this, Head(update))
           k == FindById(stored, body.name)
       IN storeUpdates(this, Tail(update),
            [stored EXCEPT ![k].categories = body.categories, ![k].link = body.link])

RECURSIVE storeAdds(_, _, _)
storeAdds(this, add, stored) ==
  IF add = <<>> THEN stored
  ELSE LET body == generateDefaultBody(this, Head(add))
       IN storeAdds(this, Tail(add),
            Append(stored, [id |-> body.name, appId |-> 101 + Len(stored),
                            categories |-> body.categories, link |-> body.link]))

Store ==
  /\ stage = "diffed"
  /\ LET this == Sonarr(input.categories, input.indexers)
     IN output' = [output EXCEPT !.indexers =
                     storeAdds(this, output.add,
                               storeUpdates(this, output.update, input.indexers))]
  /\ stage' = "stored"
  /\ UNCHANGED <<rules, input, runVars>>

\* the next run's diff: same catalog, same rule table, freshly fetched list
Rediff ==
  /\ stage = "stored"
  /\ output' = [first |-> output,
                next |-> checkDifferences(Sonarr(input.categories, output.indexers),
                                          input.jackettIndexers)]
  /\ stage' = "rediffed"
  /\ UNCHANGED <<rules, input, runVars>>

NextDiff == Diff \/ Store \/ Rediff

SpecDiff == InitDiff /\ [][NextDiff]_vars

\* C2: an indexer this run created or updated, stored as pushed, is in neither
\* list of the next run.
C2_NoPerpetualDrift ==
  stage = "rediffed" =>
    \A id \in Range(IdsOf(output.first.add)) \cup Range(IdsOf(output.first.update)) :
      /\ id \notin Range(IdsOf(output.next.add))
      /\ id \notin Range(IdsOf(output.next.update))

(***************************************************************************)
(* Properties of one diff (stage "diffed")                                 *)
(***************************************************************************)
InList(list, id) == \E i \in 1..Len(list) : list[i].id = id

\* ids of the catalog that are / are not on the consumer
Missing == {i \in 1..Len(input.jackettIndexers) :
              ~InList(input.indexers, input.jackettIndexers[i].id)}
Common == {i \in 1..Len(input.jackettIndexers) :
              InList(input.indexers, input.jackettIndexers[i].id)}

Existing(j) == input.indexers[FindById(input.indexers, j.id)]

Overlap(j) == {c \in Range(input.categories) : c \in j.categories}

NamedByRule(j) ==
  \E r \in 1..Len(rules) :
    rules[r].service \in {ALL, "Sonarr"} /\ rules[r].indexerId = j.id

\* C8: a source indexer not on the consumer and with no category overlap is in
\* the create list exactly when a rule with selector ALL or the consumer's own
\* name names its id; a rule for another consumer does not include it.
C8_PolicyForcedInclusion ==
  stage = "diffed" =>
    \A i \in Missing :
      LET j == input.jackettIndexers[i]
      IN Overlap(j) = {} => (InList(output.add, j.id) <=> NamedByRule(j))

C8_Witness ==
  /\ stage = "diffed"
  /\ \E i \in Missing :
       /\ Overlap(input.jackettIndexers[i]) = {}
       /\ InList(output.add, input.jackettIndexers[i].id)
       /\ rules[1].service = "Sonarr"

\* C9: an indexer on both sides is in the update list exactly when the identity
\* fields differ or the existing categories, overrides reversed, are not
\* set-equal to the wanted categories the source indexer offers.
Reversed(j) ==
  undoIndexerSpecificConfiguration("Sonarr", j, Existing(j).categories, <<>>)
    .supportedCategories

C9_NoDoubleUpdate ==
  stage = "diffed" =>
    \A i \in Common :
      LET j == input.jackettIndexers[i]
      IN InList(output.update, j.id)
           <=> (Existing(j).link # j.link \/ Range(Reversed(j)) # Overlap(j))

C9_Witness ==
  /\ stage = "diffed"
  /\ \E i \in Common :
       LET j == input.jackettIndexers[i]
       IN /\ ~InList(output.update, j.id)
          /\ Reversed(j) # Existing(j).categories
          /\ Overlap(j) # {}

C14_DiffLeavesInputs == stage = "diffed" => output.indexers = input.indexers

\* C16: the create list is the catalog, in its order, restricted to the ids
\* absent from the consumer that have a category overlap or are named by a rule;
\* the update list is the catalog, in its order, restricted to the ids on the
\* consumer whose record differs; no id is in both.
C16_DiffPartition ==
  stage = "diffed" =>
    /\ output.add =
         SelectSeq(input.jackettIndexers,
                   LAMBDA j : /\ ~InList(input.indexers, j.id)
                              /\ (Overlap(j) # {} \/ NamedByRule(j)))
    /\ output.update =
         SelectSeq(input.jackettIndexers,
                   LAMBDA j : /\ InList(input.indexers, j.id)
                              /\ (Existing(j).link # j.link
                                    \/ Range(Reversed(j)) # Overlap(j)))
    /\ \A i \in 1..Len(output.add) : ~InList(output.update, output.add[i].id)

\* a catalog of two, id 2 first: the first entry rejected by policy and in
\* neither list, the second one updated
C16_Witness ==
  /\ stage = "diffed"
  /\ Len(input.jackettIndexers) = 2
  /\ input.jackettIndexers[1].id = 2
  /\ ~InList(input.indexers, 2)
  /\ output.add = <<>>
  /\ output.update = <<input.jackettIndexers[2]>>

(***************************************************************************)
(* The run: main.ts start() and sync(service), service.ts validate,        *)
(* getIndexers, sync, handleIndexersRequest, handleRequest.                *)
(*                                                                         *)
(* A request is [method, url, body, result, data]; result is "pending"     *)
(* until the response arrives, data is response.data of GET indexer.  For a write (POST, PUT) the result is that of the    *)
(* promise handleRequest returns: "ok" (then-branch logged), "logged"      *)
(* (catch-branch logged the error), "threw" (the catch-branch itself threw,*)
(* the promise is rejected).                                               *)
(***************************************************************************)
\* service.ts 89-95; mapToIndexer is the subclass's: it throws on an entry it
\* cannot parse (entry.parses = FALSE).  Null stands for undefined.
mapToIndexerWithCatch(entry) == IF entry.parses THEN entry.indexer ELSE [id |-> Null]

\* (the first entry that does not map ends the list)
RECURSIVE handleIndexersRequest_StopsAtFailure(_)
handleIndexersRequest_StopsAtFailure(data) ==
  IF data = <<>> \/ ~Head(data).parses THEN <<>>
  ELSE (IF Head(data).indexer.id # Null THEN <<Head(data).indexer>> ELSE <<>>)
         \o handleIndexersRequest_StopsAtFailure(Tail(data))

\* service.ts 72-77: map, then drop what did not map or has no id
handleIndexersRequest(data) ==
  SelectSeq([i \in 1..Len(data) |-> mapToIndexerWithCatch(data[i])],
            LAMBDA indexer : indexer.id # Null)

\* service.ts 32-34, 36-38
validate ==
  [method |-> "GET", url |-> <<"system">>, body |-> <<>>, result |-> "pending", data |-> <<>>]
getIndexers ==
  [method |-> "GET", url |-> <<"indexer">>, body |-> <<>>, result |-> "pending", data |-> <<>>]

\* service.ts 40-43
add(this, indexer) ==
  [method |-> "POST", url |-> <<"indexer">>,
   body |-> generateDefaultBody(this, indexer), result |-> "pending", data |-> <<>>]

\* (body.id left unset)
update_NoBodyId(this, appId, indexer) ==
  [method |-> "PUT", url |-> <<"indexer", appId>>,
   body |-> generateDefaultBody(this, indexer), result |-> "pending", data |-> <<>>]

\* service.ts 45-50
update(this, appId, indexer) ==
  [method |-> "PUT", url |-> <<"indexer", appId>>,
   body |-> [generateDefaultBody(this, indexer) EXCEPT !.id = appId],
   result |-> "pending", data |-> <<>>]

\* (the first record's appId, whatever its id)
appIdOf_First(existing, indexer) == existing[1].appId

\* service.ts 63
appIdOf(existing, indexer) == existing[FindById(existing, indexer.id)].appId

\* (the update requests issued before the add requests)
sync_UpdatesFirst(this, catalog) ==
  LET d == checkDifferences(this, catalog)
  IN [indexers |-> d.indexers,
      requests |->
        [i \in 1..Len(d.update) |->
           update(this, appIdOf(d.indexers, d.update[i]), d.update[i])]
          \o [i \in 1..Len(d.add) |-> add(this, d.add[i])]]

\* service.ts 56-66: the diff, then every add request, then every update
\* request; none is awaited before all are issued.
sync(this, catalog) ==
  LET d == checkDifferences(this, catalog)
  IN [indexers |-> d.indexers,
      requests |->
        [i \in 1..Len(d.add) |-> add(this, d.add[i])]
          \o [i \in 1..Len(d.update) |->
                update(this, appIdOf(d.indexers, d.update[i]), d.update[i])]]

This(s) == [serviceName |-> s, categories |-> categories[s], indexers |-> indexers[s]]

Writes(s) == {i \in 1..Len(calls[s]) : calls[s][i].method \in {"POST", "PUT"}}
AddPromises(s) == {i \in 1..Len(calls[s]) : calls[s][i].method = "POST"}
UpdatePromises(s) == {i \in 1..Len(calls[s]) : calls[s][i].method = "PUT"}

(***************************************************************************)
(* Inputs of the run                                                       *)
(***************************************************************************)
Jackett1 == [id |-> 1, categories |-> {2000, 5030}, link |-> "a"]

RunCatalogs == {<<Jackett1>>, <<Jackett1, Jackett2>>}

RunCategories == [s \in ServiceNames |-> IF s = "Sonarr" THEN <<2000>> ELSE <<5030>>]

RunRuleTables ==
  {<<>>,
   <<[service |-> ALL, indexerId |-> 2, category |-> 5030, animeCategory |-> Null]>>,
   <<[service |-> "Sonarr", indexerId |-> 1, category |-> 5030, animeCategory |-> 5070]>>}

Entry(id, appId, cats, link) ==
  [parses |-> TRUE,
   indexer |-> [id |-> id, appId |-> appId, categories |-> cats, link |-> link]]
Unparsable ==
  [parses |-> FALSE,
   indexer |-> [id |-> 1, appId |-> 101, categories |-> <<>>, link |-> "a"]]

\* bodies of the answer to GET indexer
RunResponses ==
  {<<>>,
   <<Entry(1, 101, <<2000>>, "a")>>,
   <<Entry(2, 101, <<2000>>, "a"), Entry(1, 102, <<>>, "b")>>,
   <<Unparsable, Entry(2, 102, <<2000>>, "a")>>,
   <<Entry(Null, 101, <<2000>>, "a"), Entry(1, 102, <<5030>>, "a")>>,
   <<Entry(1, 101, <<>>, "a"), Entry(1, 102, <<2000>>, "a")>>}

Init ==
  /\ rules \in RunRuleTables
  /\ mainPc = "start"
  /\ jackettIndexers = <<>>
  /\ categories = RunCategories
  /\ indexers = [s \in ServiceNames |-> <<>>]
  /\ pc = [s \in ServiceNames |-> "new"]
  /\ calls = [s \in ServiceNames \cup {"Jackett"} |->
                IF s = "Jackett" THEN <<getIndexers>> ELSE <<>>]
  /\ stage = "run"
  /\ input = <<>>
  /\ output = <<>>

(***************************************************************************)
(* main.ts 9-42: start                                                     *)
(***************************************************************************)
Settle(s, i, result) == calls' = [calls EXCEPT ![s][i].result = result]

\* the answer to jackett.getIndexers() arrives; with a catalog, every service
\* starts its sync, which issues its validate request
Started(result) ==
  [s \in DOMAIN calls |->
     IF s = "Jackett" THEN <<[getIndexers EXCEPT !.result = result]>> ELSE <<validate>>]

\* (the catch logs and the run goes on with an empty catalog)
JackettFailed_GoesOn ==
  /\ mainPc = "start"
  /\ mainPc' = "running"
  /\ pc' = [s \in ServiceNames |-> "validate"]
  /\ calls' = Started("error")
  /\ UNCHANGED <<rules, jackettIndexers, categories, indexers, funVars>>

\* main.ts 12-21: jackett.getIndexers() failed: process.exit(1)
JackettFailed ==
  /\ mainPc = "start"
  /\ mainPc' = "exit"
  /\ Settle("Jackett", 1, "error")
  /\ UNCHANGED <<rules, jackettIndexers, categories, indexers, pc, funVars>>

\* main.ts 12-14, 23-33, 44-46: the catalog arrived; every service is built and
\* its sync started, which issues its validate request.
JackettFetched ==
  /\ mainPc = "start"
  /\ \E catalog \in RunCatalogs : jackettIndexers' = catalog
  /\ mainPc' = "running"
  /\ pc' = [s \in ServiceNames |-> "validate"]
  /\ calls' = Started("ok")
  /\ UNCHANGED <<rules, categories, indexers, funVars>>

\* main.ts 30-41: every sync(service) has settled
Finished ==
  /\ mainPc = "running"
  /\ \A s \in ServiceNames : pc[s] \in {"done", "failed"}
  /\ mainPc' = "done"
  /\ UNCHANGED <<rules, jackettIndexers, categories, indexers, pc, calls, funVars>>

(***************************************************************************)
(* main.ts 44-60: sync(service)                                            *)
(***************************************************************************)
\* (the rejection is swallowed and the fetch follows)
ValidateRejected_GoesOn(s) ==
  /\ mainPc = "running"
  /\ pc[s] = "validate"
  /\ calls' = [calls EXCEPT ![s] = Append([@ EXCEPT ![1].result = "error"], getIndexers)]
  /\ pc' = [pc EXCEPT ![s] = "getIndexers"]
  /\ UNCHANGED <<rules, mainPc, jackettIndexers, categories, indexers, funVars>>

\* (no catch: the rejection ends the process)
ValidateRejected_Aborts(s) ==
  /\ mainPc = "running"
  /\ pc[s] = "validate"
  /\ Settle(s, 1, "error")
  /\ pc' = [pc EXCEPT ![s] = "failed"]
  /\ mainPc' = "exit"
  /\ UNCHANGED <<rules, jackettIndexers, categories, indexers, funVars>>

\* main.ts 46, 57-59: validate rejected; the catch logs it
ValidateRejected(s) ==
  /\ mainPc = "running"
  /\ pc[s] = "validate"
  /\ Settle(s, 1, "error")
  /\ pc' = [pc EXCEPT ![s] = "failed"]
  /\ UNCHANGED <<rules, mainPc, jackettIndexers, categories, indexers, funVars>>

\* main.ts 46-51: validate resolved; getIndexers issues its request
ValidateResolved(s) ==
  /\ mainPc = "running"
  /\ pc[s] = "validate"
  /\ calls' = [calls EXCEPT ![s] = Append([@ EXCEPT ![1].result = "ok"], getIndexers)]
  /\ pc' = [pc EXCEPT ![s] = "getIndexers"]
  /\ UNCHANGED <<rules, mainPc, jackettIndexers, categories, indexers, funVars>>

\* service.ts 78-86, main.ts 57-59: the request failed (or its answer could
\* not be mapped at all); logged, rethrown, caught by sync(service)
IndexersRejected(s) ==
  /\ mainPc = "running"
  /\ pc[s] = "getIndexers"
  /\ Settle(s, 2, "error")
  /\ pc' = [pc EXCEPT ![s] = "failed"]
  /\ UNCHANGED <<rules, mainPc, jackettIndexers, categories, indexers, funVars>>

\* service.ts 36-38, 70-77, main.ts 51-54, service.ts 56-67: the list arrived;
\* this.indexers is set, service.sync computes the diff and issues every write
IndexersResolved(s) ==
  /\ mainPc = "running"
  /\ pc[s] = "getIndexers"
  /\ \E data \in RunResponses :
       LET fetched == handleIndexersRequest(data)
           r == sync([This(s) EXCEPT !.indexers = fetched], jackettIndexers)
       IN /\ indexers' = [indexers EXCEPT ![s] = r.indexers]
          /\ calls' = [calls EXCEPT ![s] =
                          [@ EXCEPT ![2].result = "ok", ![2].data = data] \o r.requests]
  /\ pc' = [pc EXCEPT ![s] = "awaitAdd"]
  /\ UNCHANGED <<rules, mainPc, jackettIndexers, categories, funVars>>

(***************************************************************************)
(* service.ts 98-116: handleRequest, one write request                     *)
(***************************************************************************)
Alive == mainPc \in {"running", "done"}

\* 99-106: a response; one of the three log lines
RequestResolved(s) ==
  /\ Alive
  /\ \E i \in Writes(s) : calls[s][i].result = "pending" /\ Settle(s, i, "ok")
  /\ UNCHANGED <<rules, mainPc, jackettIndexers, categories, indexers, pc, funVars>>

\* (a rejected request is sent once more)
RequestRejected_Retries(s) ==
  /\ Alive
  /\ \E i \in Writes(s) :
       /\ calls[s][i].result = "pending"
       /\ Len(calls[s]) < 6
       /\ calls' = [calls EXCEPT ![s] = Append([@ EXCEPT ![i].result = "logged"], @[i])]
  /\ UNCHANGED <<rules, mainPc, jackettIndexers, categories, indexers, pc, funVars>>

\* 107-114: an error; the catch logs it and the promise is fulfilled
RequestRejected(s) ==
  /\ Alive
  /\ \E i \in Writes(s) : calls[s][i].result = "pending" /\ Settle(s, i, "logged")
  /\ UNCHANGED <<rules, mainPc, jackettIndexers, categories, indexers, pc, funVars>>

\* 110-111: an error whose response the catch cannot read (response.data is
\* null, or config.data is not JSON): the catch throws, the promise is rejected
HandlerThrew(s) ==
  /\ Alive
  /\ \E i \in Writes(s) : calls[s][i].result = "pending" /\ Settle(s, i, "threw")
  /\ UNCHANGED <<rules, mainPc, jackettIndexers, categories, indexers, pc, funVars>>

(***************************************************************************)
(* service.ts 67: await Promise.all(addPromises) && await Promise.all(...) *)
(***************************************************************************)
Fulfilled(s, batch) == \A i \in batch : calls[s][i].result \in {"ok", "logged"}
Rejected(s, batch) == \E i \in batch : calls[s][i].result = "threw"

AddBatchFulfilled(s) ==
  /\ mainPc = "running"
  /\ pc[s] = "awaitAdd"
  /\ Fulfilled(s, AddPromises(s))
  /\ pc' = [pc EXCEPT ![s] = "awaitUpdate"]
  /\ UNCHANGED <<rules, mainPc, jackettIndexers, categories, indexers, calls, funVars>>

\* Promise.all rejects with the first rejection; main.ts 57-59 logs "Failed"
AddBatchRejected(s) ==
  /\ mainPc = "running"
  /\ pc[s] = "awaitAdd"
  /\ Rejected(s, AddPromises(s))
  /\ pc' = [pc EXCEPT ![s] = "failed"]
  /\ UNCHANGED <<rules, mainPc, jackettIndexers, categories, indexers, calls, funVars>>

\* main.ts 54-56: "Sync is done!"
UpdateBatchFulfilled(s) ==
  /\ mainPc = "running"
  /\ pc[s] = "awaitUpdate"
  /\ Fulfilled(s, UpdatePromises(s))
  /\ pc' = [pc EXCEPT ![s] = "done"]
  /\ UNCHANGED <<rules, mainPc, jackettIndexers, categories, indexers, calls, funVars>>

UpdateBatchRejected(s) ==
  /\ mainPc = "running"
  /\ pc[s] = "awaitUpdate"
  /\ Rejected(s, UpdatePromises(s))
  /\ pc' = [pc EXCEPT ![s] = "failed"]
  /\ UNCHANGED <<rules, mainPc, jackettIndexers, categories, indexers, calls, funVars>>

ServiceStep(s) ==
  \/ ValidateRejected(s)
  \/ ValidateResolved(s)
  \/ IndexersRejected(s)
  \/ IndexersResolved(s)
  \/ RequestResolved(s)
  \/ RequestRejected(s)
  \/ HandlerThrew(s)
  \/ AddBatchFulfilled(s)
  \/ AddBatchRejected(s)
  \/ UpdateBatchFulfilled(s)
  \/ UpdateBatchRejected(s)

Next ==
  \/ JackettFailed
  \/ JackettFetched
  \/ Finished
  \/ \E s \in ServiceNames : ServiceStep(s)

Spec == Init /\ [][Next]_vars

\* Every request is answered and every continuation whose promise settled runs.
FairSpec == Spec /\ WF_vars(Finished) /\ \A s \in ServiceNames : WF_vars(ServiceStep(s))

(***************************************************************************)
(* Properties of the run                                                   *)
(***************************************************************************)
CatalogIds == Range(IdsOf(jackettIndexers))

\* C1: no write request of a consumer carries, or is addressed to, a record of
\* that consumer whose id is absent from the source catalog, and no request is
\* a delete.
C1_OrphanSafety ==
  \A s \in ServiceNames :
    \A i \in 1..Len(calls[s]) :
      /\ calls[s][i].method \in {"GET", "POST", "PUT"}
      /\ i \in Writes(s) =>
           \A k \in 1..Len(indexers[s]) :
             indexers[s][k].id \notin CatalogIds =>
               /\ calls[s][i].body.name # indexers[s][k].id
               /\ calls[s][i].body.id # indexers[s][k].appId
               /\ calls[s][i].url # <<"indexer", indexers[s][k].appId>>

C1_Witness ==
  \E s \in ServiceNames :
    /\ \E k \in 1..Len(indexers[s]) : indexers[s][k].id \notin CatalogIds
    /\ \E i \in Writes(s) : calls[s][i].method = "PUT" /\ calls[s][i].result = "ok"

\* C4: a consumer's sync fails only on its validate or its indexer fetch, never
\* because one create or update entry failed.
C4_PerEntryIsolation ==
  \A s \in ServiceNames :
    pc[s] = "failed" =>
      \/ calls[s][1].result = "error"
      \/ calls[s][Len(calls[s])] = [getIndexers EXCEPT !.result = "error"]

C6_SourceFailureFatal ==
  /\ calls["Jackett"][1].result # "ok" => \A s \in ServiceNames : calls[s] = <<>>
  /\ calls["Jackett"][1].result = "error" => mainPc = "exit"

C6_Witness == mainPc = "exit" /\ calls["Jackett"][1].result = "error"

\* C7: a consumer with a create or update request has had its validate and its
\* indexer fetch answered successfully before; a failed validate or fetch is the
\* consumer's last request.
C7_WritesAfterFetch ==
  \A s \in ServiceNames :
    /\ Writes(s) # {} =>
         /\ calls[s][1] = [validate EXCEPT !.result = "ok"]
         /\ calls[s][2] = [getIndexers EXCEPT !.result = "ok", !.data = calls[s][2].data]
         /\ \A i \in Writes(s) : i > 2
    /\ \A i \in 1..Len(calls[s]) :
         (calls[s][i].method = "GET" /\ calls[s][i].result = "error") => Len(calls[s]) = i

C7_Witness ==
  \E s, t \in ServiceNames :
    /\ Len(calls[s]) = 2 /\ calls[s][2].result = "error" /\ pc[s] = "failed"
    /\ Writes(t) # {} /\ pc[t] = "done"

\* C13: a consumer is sent at most one write request per source indexer id,
\* whatever the outcome of that request; a failed one is not sent again.
C13_OneWritePerEntry ==
  \A s \in ServiceNames :
    \A i, k \in Writes(s) : calls[s][i].body.name = calls[s][k].body.name => i = k

C13_Witness ==
  \E s \in ServiceNames :
    /\ pc[s] = "done"
    /\ \E i \in Writes(s) : calls[s][i].result = "logged"
    /\ \E i \in Writes(s) : calls[s][i].result = "ok"

\* C15: every update request is addressed to the appId of a record of the
\* consumer whose id is the source indexer's, and its body carries that appId.
C15_UpdateByAppId ==
  \A s \in ServiceNames :
    \A i \in UpdatePromises(s) :
      \E k \in 1..Len(indexers[s]) :
        /\ indexers[s][k].id = calls[s][i].body.name
        /\ calls[s][i].url = <<"indexer", indexers[s][k].appId>>
        /\ calls[s][i].body.id = indexers[s][k].appId

\* an update of the second record of the list
C15_Witness ==
  \E s \in ServiceNames :
    \E i \in UpdatePromises(s) :
      /\ Len(indexers[s]) = 2
      /\ indexers[s][1].id # calls[s][i].body.name
      /\ calls[s][i].url = <<"indexer", indexers[s][2].appId>>

\* C17: once the consumer's list arrived, this.indexers holds, in order, every
\* entry that mapped and has an id (its categories possibly spliced by the
\* diff), whether or not other entries failed to map, and the fetch succeeded.
Kept(data) == SelectSeq(data, LAMBDA e : e.parses /\ e.indexer.id # Null)

Identity(list) ==
  [k \in 1..Len(list) |-> [id |-> list[k].id, appId |-> list[k].appId, link |-> list[k].link]]

C17_MappingFailureSkipsOne ==
  \A s \in ServiceNames :
    (Len(calls[s]) >= 2 /\ calls[s][2].result = "ok") =>
      LET kept == Kept(calls[s][2].data)
      IN Identity(indexers[s]) = Identity([i \in 1..Len(kept) |-> kept[i].indexer])

\* an entry that did not map, the next one kept and updated
C17_Witness ==
  \E s \in ServiceNames :
    /\ Len(calls[s]) >= 2 /\ calls[s][2].result = "ok"
    /\ Len(calls[s][2].data) = 2
    /\ ~calls[s][2].data[1].parses
    /\ Len(indexers[s]) = 1
    /\ \E i \in UpdatePromises(s) :
         calls[s][i].url = <<"indexer", indexers[s][1].appId>>

\* C18: a consumer's add requests all precede its update requests, and all of
\* its write requests are issued in one step, pending, before any is answered:
\* afterwards the consumer is sent nothing more.
C18_BatchOrdering ==
  /\ [](\A s \in ServiceNames :
          \A i \in AddPromises(s) : \A k \in UpdatePromises(s) : i < k)
  /\ [][\A s \in ServiceNames :
          /\ Len(calls'[s]) > Len(calls[s]) =>
               /\ Writes(s) = {}
               /\ \A i \in (Len(calls[s]) + 1)..Len(calls'[s]) :
                    calls'[s][i].result = "pending"
          /\ (Len(calls[s]) >= 2 /\ calls[s][2].result = "ok") =>
               Len(calls'[s]) = Len(calls[s])]_vars

C18_Witness ==
  \E s \in ServiceNames :
    /\ AddPromises(s) # {}
    /\ UpdatePromises(s) # {}
    /\ \A i \in Writes(s) : calls[s][i].result = "pending"

====
